---- MODULE Spec2Model ----
(***************************************************************************)
(* Behavioural Profile Synthesis Engine of crucible-chrome-extension.      *)
(*                                                                         *)
(* Part I  : AIOrchestrator (priority task scheduler, popup.js) and the    *)
(*           BackgroundService periodic poller that feeds it.              *)
(* Part II : DatabaseService session-boundary handling and LTPBuilder      *)
(*           (databaseService.js, kept as src/unnamed/part_000).           *)
(*                                                                         *)
(* JavaScript is single threaded: every action below is one run-to-        *)
(* completion segment of a handler, from one resumption to the next await. *)
(***************************************************************************)
EXTENDS Integers, Sequences, FiniteSets, TLC

VARIABLES
    \* ---- AIOrchestrator ----
    languageModel,   \* this.languageModel is non-null
    taskQueue,       \* this.taskQueue
    isProcessing,    \* this.isProcessing
    pqProbe,         \* processQueue calls awaiting the health probe prompt
    pqRecover,       \* processQueue calls inside the recovery of a failed probe
    executing,       \* task objects between task.execute() and its settlement
    execLog,         \* task objects in the order processQueue dequeued them
    resolved,        \* per task object: the values its promise was resolved with
    outcome,         \* per task object: how its handler ended ("none" before)
    nextUid,         \* next task object to be created by addToQueue
    now,             \* Date.now()
    \* ---- BackgroundService poller and the persisted aiQueue table ----
    aiQueue,         \* db.aiQueue rows
    nextPid,         \* auto-increment key of db.aiQueue
    pollers,         \* checkAndProcessAITasks invocations
    \* ---- DatabaseService / LTPBuilder ----
    lastSessionId,   \* db.systemState 'lastSessionId' value
    urlBehaviors,    \* sessions that have at least one db.urlBehaviors row
    profile,         \* db.profile row 'default'
    handlers,        \* saveBehaviorData invocations
    buildLog,        \* per session, the buildSTP and buildLTP calls made for it
    today,           \* wall clock of the database side, in days
    msgCount,        \* saveBehaviorData messages handled so far
    \* ---- pure functions of DatabaseService / LTPBuilder ----
    calc,            \* the last call made: function, arguments, return value
    \* ---- DatabaseService: flags ----
    summaryGenerationInProgress,  \* this.summaryGenerationInProgress
    urlRecords,      \* the db.urlBehaviors rows of one (sessionId, tabId, url)
    savers           \* saveBehaviorData invocations for that key, up to the
                     \* end of maybeAddTopicInferenceTask

schedVars == <<languageModel, taskQueue, isProcessing, pqProbe, pqRecover,
               executing, execLog, resolved, outcome, nextUid, now,
               aiQueue, nextPid, pollers>>

dbVars == <<lastSessionId, urlBehaviors, profile, handlers, buildLog, today,
           msgCount>>

flagVars == <<summaryGenerationInProgress, urlRecords, savers>>

vars == <<schedVars, dbVars, calc, flagVars>>

(***************************** bounds **************************************)
MaxTasks == 3        \* task objects created by addToQueue
MaxClock == 1        \* distinct values of Date.now()
MaxPersisted == 3    \* rows ever added to db.aiQueue
MaxPollers == 2      \* overlapping checkAndProcessAITasks invocations

(************************* program constants *******************************)
PRIORITY_HIGH == 1
PRIORITY_MEDIUM == 2
PRIORITY_LOW == 3
PRIORITY_BACKGROUND == 4
MaxTabs == 15
QueueThreshold == 10
MinBatch == 3
BatchLimit == 5

Uids == 1..MaxTasks
NoTask == 0

\* A task that does not come from db.aiQueue carries no row.
NoRow == [pid |-> 0, type |-> "PROMPT_API_CALL", priority |-> 0,
          createdAt |-> 0, query |-> 0]

(***************************************************************************)
(* addToQueue's comparator: priority ascending, then timestamp ascending.  *)
(***************************************************************************)
QueueBefore_FifoOnly(a, b) == a.timestamp < b.timestamp

QueueBefore(a, b) ==
    IF a.priority # b.priority THEN a.priority < b.priority
    ELSE a.timestamp < b.timestamp

\* Array.prototype.sort is stable: x goes before the first element that the
\* comparator places strictly after it.
RECURSIVE InsertTask(_, _)
InsertTask(s, x) ==
    IF s = <<>> THEN <<x>>
    ELSE IF QueueBefore(x, Head(s)) THEN <<x>> \o s
    ELSE <<Head(s)>> \o InsertTask(Tail(s), x)

RECURSIVE SortQueue(_)
SortQueue(q) ==
    IF q = <<>> THEN <<>>
    ELSE InsertTask(SortQueue(SubSeq(q, 1, Len(q) - 1)), q[Len(q)])

\* processQueue is entered: checkSessionHealth issues the probe prompt
\* synchronously (languageModel is non-null on every path that gets here).
StartProcessQueue(n) == n + 1

\* addToQueue: build the task object, push, sort, processQueue().
AddToQueue(priority, row, q) ==
    SortQueue(Append(q, [uid |-> nextUid, priority |-> priority,
                         timestamp |-> now, row |-> row]))

\* getStatus().acceptsBackgroundTasks / hasHighPriorityPending
hasHighPriorityPending ==
    \E i \in 1..Len(taskQueue) : taskQueue[i].priority <= PRIORITY_HIGH

acceptsBackgroundTasks ==
    ~hasHighPriorityPending /\ Len(taskQueue) < QueueThreshold

IdlePoller == [pc |-> "idle", batch |-> <<>>, wait |-> NoTask, row |-> NoRow]

SchedInit ==
    /\ languageModel = FALSE
    /\ taskQueue = <<>>
    /\ isProcessing = FALSE
    /\ pqProbe = 0
    /\ pqRecover = 0
    /\ executing = {}
    /\ execLog = <<>>
    /\ resolved = [u \in Uids |-> <<>>]
    /\ outcome = [u \in Uids |-> "none"]
    /\ nextUid = 1
    /\ now = 0
    /\ aiQueue = {}
    /\ nextPid = 1
    /\ pollers = [p \in 1..MaxPollers |-> IdlePoller]

(***************************************************************************)
(* AIOrchestrator.initializeNano: LanguageModel.create succeeded.  A       *)
(* failed creation leaves this.languageModel as it was.                    *)
(***************************************************************************)
InitializeNano ==
    /\ ~languageModel
    /\ languageModel' = TRUE
    /\ UNCHANGED <<taskQueue, isProcessing, pqProbe, pqRecover, executing,
                   execLog, resolved, outcome, nextUid, now, aiQueue, nextPid, pollers>>
    /\ UNCHANGED <<dbVars, calc, flagVars>>

\* Date.now() advances.
ClockTick ==
    /\ now < MaxClock
    /\ now' = now + 1
    /\ UNCHANGED <<languageModel, taskQueue, isProcessing, pqProbe, pqRecover,
                   executing, execLog, resolved, outcome, nextUid, aiQueue, nextPid,
                   pollers>>
    /\ UNCHANGED <<dbVars, calc, flagVars>>

(***************************************************************************)
(* scheduleAITask -> addToQueue for a task that a message handler submits. *)
(* With no language model the task is rejected and nothing is queued.      *)
(***************************************************************************)
Submit(priority) ==
    /\ languageModel
    /\ nextUid <= MaxTasks
    /\ taskQueue' = AddToQueue(priority, NoRow, taskQueue)
    /\ nextUid' = nextUid + 1
    /\ pqProbe' = StartProcessQueue(pqProbe)
    /\ UNCHANGED <<languageModel, isProcessing, pqRecover, executing, execLog,
                   resolved, outcome, now, aiQueue, nextPid, pollers>>
    /\ UNCHANGED <<dbVars, calc, flagVars>>

(***************************************************************************)
(* processQueue after `await this.checkSessionHealth()`.  Everything from  *)
(* the resumption to `await task.execute()` runs without yielding.         *)
(***************************************************************************)
Dequeue_NoShift(q) == q

Dequeue(q) == Tail(q)

UnhealthyFlag(flag) == FALSE

ProcessQueueResume(healthy) ==
    IF ~healthy
    THEN /\ isProcessing' = UnhealthyFlag(isProcessing)
         /\ UNCHANGED <<taskQueue, executing, execLog>>
    ELSE IF isProcessing \/ Len(taskQueue) = 0
    THEN UNCHANGED <<isProcessing, taskQueue, executing, execLog>>
    ELSE /\ isProcessing' = TRUE
         /\ taskQueue' = Dequeue(taskQueue)
         /\ executing' = executing \cup {Head(taskQueue)}
         /\ execLog' = Append(execLog, Head(taskQueue).uid)

\* checkAndRecoverSession: the probe prompt settles.  ok: the response
\* contains 'OK'.  Otherwise the recovery (destroy, initializeNano) starts.
PQProbeDone(ok) ==
    /\ pqProbe > 0
    /\ pqProbe' = pqProbe - 1
    /\ IF ok
       THEN /\ ProcessQueueResume(TRUE)
            /\ UNCHANGED pqRecover
       ELSE /\ pqRecover' = pqRecover + 1
            /\ UNCHANGED <<isProcessing, taskQueue, executing, execLog>>
    /\ UNCHANGED <<languageModel, resolved, outcome, nextUid, now, aiQueue, nextPid,
                   pollers>>
    /\ UNCHANGED <<dbVars, calc, flagVars>>

\* checkAndRecoverSession: the recovery ends.  threw: an exception reached
\* the outer catch ({healthy: false}); otherwise healthy is
\* !!this.languageModel, and languageModel is non-null here.
PQRecoverDone(threw) ==
    /\ pqRecover > 0
    /\ pqRecover' = pqRecover - 1
    /\ ProcessQueueResume(~threw /\ languageModel)
    /\ UNCHANGED <<languageModel, pqProbe, resolved, outcome, nextUid, now, aiQueue,
                   nextPid, pollers>>
    /\ UNCHANGED <<dbVars, calc, flagVars>>

(***************************************************************************)
(* scheduleAITask's taskFunction: a handler that returns is wrapped as     *)
(* {success: true, result}; a handler that throws as {success: false,      *)
(* error}.  Handler outcomes: "ok", "fallback" (the handler caught its own *)
(* failure and returned substitute content), "throws".                     *)
(***************************************************************************)
HandlerOutcomes == {"ok", "fallback", "throws"}

TaskFunction_AlwaysSuccess(how) == [success |-> TRUE, error |-> "null"]

TaskFunction(how) ==
    IF how = "throws"
    THEN [success |-> FALSE, error |-> "handler error"]
    ELSE [success |-> TRUE, error |-> "null"]

\* processQueue builds responseData from the result of task.execute().
ResponseData(task, result) ==
    [success |-> result.success = TRUE, error |-> result.error,
     taskId |-> task.uid]

\* processQueue after the task settled: resolve once, clear the busy flag,
\* re-enter processQueue when the queue is not empty.
Resolve(res, task, data) == [res EXCEPT ![task.uid] = Append(@, data)]

\* processTopicInference catches its own failure and, with the inferred
\* topics or with Unknown, calls updateTopicDomainsInDatabase ->
\* updateTopicDomains(recordId, topics, queueTaskId), which deletes the row.
TopicInferenceDbEffect(task, how, rows) ==
    IF task.row.type = "TOPIC_INFERENCE" /\ how # "throws"
    THEN {r \in rows : r.pid # task.row.pid}
    ELSE rows

\* processSearchEnrichment -> updateSearchInDatabase -> enrichSearchesByQuery
\* -> removeAITasksByQuery deletes every row of the enriched query.
HandlerDbEffect(task, how, matched, rows) ==
    IF task.row.type = "SEARCH_ENRICHMENT" /\ how = "ok" /\ matched
    THEN {r \in rows : r.query # task.row.query}
    ELSE TopicInferenceDbEffect(task, how, rows)

\* processProfileSummaryGeneration ends, with the generated summary or in
\* its catch block with the fallback summary, in saveCombinedProfileSummary,
\* which sets summaryGenerationInProgress to false whether its put succeeds
\* or not.
SummaryFlagAfter(task, how, flag) ==
    IF task.row.type = "PROFILE_SUMMARY_GENERATION" /\ how # "throws"
    THEN FALSE
    ELSE flag

ExecDone(task, result, matched) ==
    /\ task \in executing
    /\ executing' = executing \ {task}
    /\ resolved' = Resolve(resolved, task, ResponseData(task, TaskFunction(result)))
    /\ outcome' = [outcome EXCEPT ![task.uid] = result]
    /\ isProcessing' = FALSE
    /\ pqProbe' = IF Len(taskQueue) > 0 THEN StartProcessQueue(pqProbe) ELSE pqProbe
    /\ aiQueue' = HandlerDbEffect(task, result, matched, aiQueue)
    /\ UNCHANGED <<languageModel, taskQueue, pqRecover, execLog, nextUid, now,
                   nextPid, pollers>>
    /\ summaryGenerationInProgress' =
          SummaryFlagAfter(task, result, summaryGenerationInProgress)
    /\ UNCHANGED <<dbVars, calc, urlRecords, savers>>

(***************************************************************************)
(* db.aiQueue producers: saveSearch (SEARCH_ENRICHMENT, priority 2) and    *)
(* maybeAddTopicInferenceTask (TOPIC_INFERENCE, priority 3) call           *)
(* addToAIQueue.                                                           *)
(***************************************************************************)
NewRow(type, query) ==
    [pid |-> nextPid, type |-> type,
     priority |-> IF type = "SEARCH_ENRICHMENT" THEN PRIORITY_MEDIUM ELSE PRIORITY_LOW,
     createdAt |-> now, query |-> query]

AddToAIQueue(type, query) ==
    /\ nextPid <= MaxPersisted
    /\ aiQueue' = aiQueue \cup {NewRow(type, query)}
    /\ nextPid' = nextPid + 1
    /\ UNCHANGED <<languageModel, taskQueue, isProcessing, pqProbe, pqRecover,
                   executing, execLog, resolved, outcome, nextUid, now, pollers>>
    /\ UNCHANGED <<dbVars, calc, flagVars>>

\* getPendingAITasks' comparator: larger priority number first, then older
\* createdAt first; the table is read in key order and the sort is stable.
RowBefore(a, b) ==
    IF a.priority # b.priority THEN a.priority > b.priority
    ELSE a.createdAt < b.createdAt

RECURSIVE InsertRow(_, _)
InsertRow(s, x) ==
    IF s = <<>> THEN <<x>>
    ELSE IF RowBefore(x, Head(s)) THEN <<x>> \o s
    ELSE <<Head(s)>> \o InsertRow(Tail(s), x)

RECURSIVE RowsInKeyOrder(_)
RowsInKeyOrder(rows) ==
    IF rows = {} THEN <<>>
    ELSE LET last == CHOOSE r \in rows : \A o \in rows : o.pid <= r.pid
         IN  Append(RowsInKeyOrder(rows \ {last}), last)

RECURSIVE SortRows(_)
SortRows(q) ==
    IF q = <<>> THEN <<>>
    ELSE InsertRow(SortRows(SubSeq(q, 1, Len(q) - 1)), q[Len(q)])

GetPendingAITasks(limit) ==
    LET sorted == SortRows(RowsInKeyOrder(aiQueue))
    IN  SubSeq(sorted, 1, IF Len(sorted) < limit THEN Len(sorted) ELSE limit)

GetPendingAITasksCount == Cardinality(aiQueue)

(***************************************************************************)
(* BackgroundService.checkAndProcessAITasks, started by setInterval.       *)
(***************************************************************************)
\* after getTabCount (at most MaxTabs tabs): getStatus gate, then the
\* poller's own checkSessionHealth probe is issued.
PollTick(p) ==
    /\ pollers[p].pc = "idle"
    /\ \A o \in 1..(p - 1) : pollers[o].pc # "idle"
    /\ languageModel /\ ~isProcessing /\ acceptsBackgroundTasks
    /\ pollers' = [pollers EXCEPT ![p].pc = "probe"]
    /\ UNCHANGED <<languageModel, taskQueue, isProcessing, pqProbe, pqRecover,
                   executing, execLog, resolved, outcome, nextUid, now, aiQueue, nextPid>>
    /\ UNCHANGED <<dbVars, calc, flagVars>>

PollProbeDone(p, ok) ==
    /\ pollers[p].pc = "probe"
    /\ pollers' = [pollers EXCEPT ![p].pc = IF ok THEN "count" ELSE "recover"]
    /\ UNCHANGED <<languageModel, taskQueue, isProcessing, pqProbe, pqRecover,
                   executing, execLog, resolved, outcome, nextUid, now, aiQueue, nextPid>>
    /\ UNCHANGED <<dbVars, calc, flagVars>>

PollRecoverDone(p, threw) ==
    /\ pollers[p].pc = "recover"
    /\ pollers' = [pollers EXCEPT ![p].pc =
                      IF ~threw /\ languageModel THEN "count" ELSE "idle"]
    /\ UNCHANGED <<languageModel, taskQueue, isProcessing, pqProbe, pqRecover,
                   executing, execLog, resolved, outcome, nextUid, now, aiQueue, nextPid>>
    /\ UNCHANGED <<dbVars, calc, flagVars>>

\* getPendingAITasksCount: nothing to do below the minimum batch size.
PollCount(p) ==
    /\ pollers[p].pc = "count"
    /\ pollers' = [pollers EXCEPT ![p].pc =
                      IF GetPendingAITasksCount < MinBatch THEN "idle" ELSE "fetch"]
    /\ UNCHANGED <<languageModel, taskQueue, isProcessing, pqProbe, pqRecover,
                   executing, execLog, resolved, outcome, nextUid, now, aiQueue, nextPid>>
    /\ UNCHANGED <<dbVars, calc, flagVars>>

\* processSingleAITask -> handleAITaskRequest -> scheduleAITask -> addToQueue
PollSubmit(p, batch) ==
    /\ languageModel
    /\ nextUid <= MaxTasks
    /\ taskQueue' = AddToQueue(IF Head(batch).priority # 0 THEN Head(batch).priority
                               ELSE PRIORITY_BACKGROUND,
                               Head(batch), taskQueue)
    /\ nextUid' = nextUid + 1
    /\ pqProbe' = StartProcessQueue(pqProbe)
    /\ pollers' = [pollers EXCEPT ![p] = [pc |-> "await", batch |-> Tail(batch),
                                          wait |-> nextUid, row |-> Head(batch)]]

\* processPendingAITasks: getPendingAITasks(5), then the first task.
PollFetch(p) ==
    /\ pollers[p].pc = "fetch"
    /\ LET batch == GetPendingAITasks(BatchLimit)
       IN  IF batch = <<>>
           THEN /\ pollers' = [pollers EXCEPT ![p] = IdlePoller]
                /\ UNCHANGED <<taskQueue, nextUid, pqProbe>>
           ELSE PollSubmit(p, batch)
    /\ UNCHANGED <<languageModel, isProcessing, pqRecover, executing, execLog,
                   resolved, outcome, now, aiQueue, nextPid>>
    /\ UNCHANGED <<dbVars, calc, flagVars>>

\* processSingleAITask after the awaited result: a failed TOPIC_INFERENCE
\* task gets updateTopicDomains(recordId, Unknown, task.id), which deletes
\* its row; then the loop submits the next task of the batch.
PollFallback(row, result, rows) ==
    IF ~result.success /\ row.type = "TOPIC_INFERENCE"
    THEN {r \in rows : r.pid # row.pid}
    ELSE rows

PollTaskDone(p) ==
    /\ pollers[p].pc = "await"
    /\ resolved[pollers[p].wait] # <<>>
    /\ aiQueue' = PollFallback(pollers[p].row, resolved[pollers[p].wait][1], aiQueue)
    /\ IF pollers[p].batch = <<>>
       THEN /\ pollers' = [pollers EXCEPT ![p] = IdlePoller]
            /\ UNCHANGED <<taskQueue, nextUid, pqProbe>>
       ELSE PollSubmit(p, pollers[p].batch)
    /\ UNCHANGED <<languageModel, isProcessing, pqRecover, executing, execLog,
                   resolved, outcome, now, nextPid>>
    /\ UNCHANGED <<dbVars, calc, flagVars>>

Queries == {1}
SubmitPriorities == {PRIORITY_HIGH, PRIORITY_MEDIUM}

SchedNext ==
    \/ InitializeNano
    \/ ClockTick
    \/ \E pr \in SubmitPriorities : Submit(pr)
    \/ \E ok \in BOOLEAN : PQProbeDone(ok)
    \/ \E threw \in BOOLEAN : PQRecoverDone(threw)
    \/ \E t \in executing, o \in HandlerOutcomes, m \in BOOLEAN : ExecDone(t, o, m)

PollNext ==
    \/ InitializeNano
    \/ \E pr \in SubmitPriorities : Submit(pr)
    \/ \E ok \in BOOLEAN : PQProbeDone(ok)
    \/ \E threw \in BOOLEAN : PQRecoverDone(threw)
    \/ \E t \in executing, o \in HandlerOutcomes, m \in BOOLEAN : ExecDone(t, o, m)
    \/ \E q \in Queries : AddToAIQueue("SEARCH_ENRICHMENT", q)
    \/ AddToAIQueue("TOPIC_INFERENCE", 0)
    \/ \E p \in 1..MaxPollers : PollTick(p)
    \/ \E p \in 1..MaxPollers, ok \in BOOLEAN : PollProbeDone(p, ok)
    \/ \E p \in 1..MaxPollers, threw \in BOOLEAN : PollRecoverDone(p, threw)
    \/ \E p \in 1..MaxPollers : PollCount(p)
    \/ \E p \in 1..MaxPollers : PollFetch(p)
    \/ \E p \in 1..MaxPollers : PollTaskDone(p)

(***************************************************************************)
(*                  Part II : DatabaseService / LTPBuilder                 *)
(*                                                                         *)
(* JavaScript numbers are modelled as exact fractions <<n, d>>, d > 0, in  *)
(* lowest terms.                                                           *)
(***************************************************************************)
Abs(x) == IF x < 0 THEN -x ELSE x

RECURSIVE GCD(_, _)
GCD(a, b) == IF b = 0 THEN a ELSE GCD(b, a % b)

Rat(n, d) ==
    LET g == GCD(Abs(n), d)
    IN  IF g = 0 THEN <<0, 1>> ELSE <<n \div g, d \div g>>

RAdd(a, b) == Rat(a[1] * b[2] + b[1] * a[2], a[2] * b[2])
RSub(a, b) == Rat(a[1] * b[2] - b[1] * a[2], a[2] * b[2])
RMul(a, b) == Rat(a[1] * b[1], a[2] * b[2])
RDiv(a, b) == Rat(a[1] * b[2], a[2] * b[1])
RLt(a, b) == a[1] * b[2] < b[1] * a[2]
RLe(a, b) == a[1] * b[2] <= b[1] * a[2]
RMin(a, b) == IF RLe(a, b) THEN a ELSE b
RMax(a, b) == IF RLe(a, b) THEN b ELSE a
Zero == <<0, 1>>
One == <<1, 1>>
Half == <<1, 2>>

\* JavaScript `x || dflt` on a number: 0 is falsy.
OrDefault(x, dflt) == IF x = Zero THEN dflt ELSE x

(************************* LTPBuilder constants ****************************)
DECAY_DAYS == 30                   \* DECAY_CONSTANT = 1/30 per day
EWMA_ALPHA == <<1, 10>>
MAX_SESSIONS_FOR_CONFIDENCE == 8
QualityThreshold == <<1, 2>>       \* engagement_confidence >= 0.5
HistoryCap == 50

NullTime == -1                     \* a null timestamp; timestamps count days

\* getEmptyLTP
GetEmptyLTP ==
    [topic_cumulative |-> <<>>, sessions_seen |-> 0, ewma_focus |-> Half,
     ewma_depth |-> Half, last_updated |-> NullTime, confidence |-> Zero]

\* Math.exp(-k), to three decimals
ExpNeg(k) ==
    CASE k <= -2 -> <<7389, 1000>>
      [] k = -1 -> <<1359, 500>>
      [] k = 0 -> One
      [] k = 1 -> <<46, 125>>
      [] k = 2 -> <<27, 200>>
      [] k = 3 -> <<1, 20>>
      [] k = 4 -> <<9, 500>>
      [] k = 5 -> <<7, 1000>>
      [] OTHER -> <<1, 500>>

\* Math.max(0, Math.min(1, x))
Clamp01_None(x) == x

Clamp01(x) == RMax(Zero, RMin(One, x))

\* calculateTimeDecay: exp(-DECAY_CONSTANT * days), clamped to [0,1].  The
\* timestamps of the model differ by whole multiples of DECAY_DAYS; a
\* negative difference gives exp(+x) > 1, which the clamp turns into 1.
CalculateTimeDecay(lastUpdated, newTimestamp) ==
    IF lastUpdated = NullTime THEN One
    ELSE LET timeDiffDays == newTimestamp - lastUpdated
         IN  Clamp01(ExpNeg(timeDiffDays \div DECAY_DAYS))

\* applyTimeDecay
ApplyTimeDecay(topicScores, decayFactor) ==
    [t \in DOMAIN topicScores |-> RMul(topicScores[t], decayFactor)]

\* mergeTopicScores
MergeTopicScores(decayed, newSTP, stpWeight) ==
    [t \in (DOMAIN decayed) \cup (DOMAIN newSTP.topic_cumulative) |->
        IF t \in DOMAIN newSTP.topic_cumulative
        THEN RAdd(IF t \in DOMAIN decayed THEN decayed[t] ELSE Zero,
                  RMul(newSTP.topic_cumulative[t].rawScore, stpWeight))
        ELSE decayed[t]]

\* updateEWMA
UpdateEWMA_Sum(oldValue, newValue, alpha) == RAdd(oldValue, newValue)

UpdateEWMA(oldValue, newValue, alpha) ==
    RAdd(RMul(RSub(One, alpha), oldValue), RMul(alpha, newValue))

\* updateLTP passes `newSTP.engagement_confidence || 0.5` as the STP weight
StpWeight(stp) == OrDefault(stp.engagement_confidence, Half)

\* coldStartLTP copies the STP's raw scores
ColdTopics_Normalized(stp) ==
    [t \in DOMAIN stp.topic_cumulative |-> stp.topic_cumulative[t].normalizedWeight]

ColdTopics(stp) ==
    [t \in DOMAIN stp.topic_cumulative |-> stp.topic_cumulative[t].rawScore]

\* coldStartLTP
ColdStartLTP(stp) ==
    IF RLt(stp.engagement_confidence, QualityThreshold)
    THEN GetEmptyLTP
    ELSE [topic_cumulative |-> ColdTopics(stp),
          sessions_seen |-> 1,
          ewma_focus |-> OrDefault(stp.engagement_confidence, Half),
          ewma_depth |-> RSub(One, OrDefault(stp.diversity_entropy, Half)),
          last_updated |-> stp.calculated_at,
          confidence |-> Rat(1, MAX_SESSIONS_FOR_CONFIDENCE)]

\* updateLTP, step 5: shouldCountSession = engagement_confidence >= 0.5
ShouldCountSession_Always(newSTP) == TRUE

ShouldCountSession(newSTP) ==
    RLe(QualityThreshold, newSTP.engagement_confidence)

\* updateLTP
UpdateLTP(currentLTP, newSTP) ==
    LET timeDecayFactor == CalculateTimeDecay(currentLTP.last_updated,
                                              newSTP.calculated_at)
        decayed == ApplyTimeDecay(currentLTP.topic_cumulative, timeDecayFactor)
        updatedSessionsSeen == IF ShouldCountSession(newSTP)
                               THEN currentLTP.sessions_seen + 1
                               ELSE currentLTP.sessions_seen
    IN  [topic_cumulative |-> MergeTopicScores(decayed, newSTP, StpWeight(newSTP)),
         sessions_seen |-> updatedSessionsSeen,
         ewma_focus |-> UpdateEWMA(currentLTP.ewma_focus,
                                   newSTP.engagement_confidence, EWMA_ALPHA),
         ewma_depth |-> UpdateEWMA(currentLTP.ewma_depth,
                                   RSub(One, OrDefault(newSTP.diversity_entropy, Half)),
                                   EWMA_ALPHA),
         last_updated |-> newSTP.calculated_at,
         confidence |-> RMin(One, Rat(updatedSessionsSeen,
                                      MAX_SESSIONS_FOR_CONFIDENCE))]

\* buildLTP: which of the two paths is taken
IsColdStart(currentLTP) ==
    currentLTP.sessions_seen = 0 \/ currentLTP.last_updated = NullTime

BuildLTP(currentLTP, stp) ==
    IF IsColdStart(currentLTP) THEN ColdStartLTP(stp)
    ELSE UpdateLTP(currentLTP, stp)

(***************************************************************************)
(* Session Topic Aggregator.  What a closed session contains is the        *)
(* environment's choice: the merged raw topic map (mergeTopicMapsRaw), the *)
(* engagement confidence and the diversity entropy calculateSessionMetrics *)
(* derives from the session's events.                                      *)
(***************************************************************************)
\* roundToDecimal(number, 6): Math.round(number * 10^6) / 10^6
RoundToDecimal(r) == Rat((2 * r[1] * 1000000 + r[2]) \div (2 * r[2]), 1000000)

\* Object.values(map).reduce((sum, score) => sum + score, 0) for scores
\* that are not negative: the numerators are added over a common
\* denominator
RECURSIVE CommonDenominator(_)
CommonDenominator(ds) ==
    IF ds = {} THEN 1
    ELSE LET d == CHOOSE x \in ds : TRUE
             rest == CommonDenominator(ds \ {d})
         IN  (d * rest) \div GCD(d, rest)

SumScores(map, keys) ==
    LET cd == CommonDenominator({map[k][2] : k \in keys})
        units == UNION {{<<k, i>> : i \in 1..(map[k][1] * (cd \div map[k][2]))} :
                        k \in keys}
    IN  Rat(Cardinality(units), cd)

\* buildEnhancedTopicCumulative
BuildEnhancedTopicCumulative(rawTopicMap) ==
    LET totalRawScore == SumScores(rawTopicMap, DOMAIN rawTopicMap)
    IN  [t \in DOMAIN rawTopicMap |->
            [rawScore |-> RoundToDecimal(rawTopicMap[t]),
             normalizedWeight |->
                 RoundToDecimal(IF RLt(Zero, totalRawScore)
                                THEN RDiv(rawTopicMap[t], totalRawScore)
                                ELSE Zero)]]

\* getEmptySTP
GetEmptySTP(sessionId, day) ==
    [session_id |-> sessionId, session_length_min |-> Zero,
     engagement_confidence |-> Zero,
     diversity_entropy |-> Zero, topic_cumulative |-> <<>>,
     calculated_at |-> day]

TopicA == "Technology"
TopicB == "Finance"

\* sessions the environment can produce: one topic with no active time
\* (confidence 0), with low and with sufficient confidence, and two equally
\* weighted topics (entropy 1)
SessionContents ==
    {[raw |-> (TopicA :> <<5, 1>>), conf |-> <<0, 1>>, entropy |-> Zero,
      active |-> 0, span |-> Zero],
     [raw |-> (TopicA :> <<5, 1>>), conf |-> <<2, 5>>, entropy |-> Zero,
      active |-> 30, span |-> One],
     [raw |-> (TopicA :> <<5, 1>>), conf |-> <<3, 5>>, entropy |-> Zero,
      active |-> 90, span |-> One],
     [raw |-> (TopicA :> <<3, 1>> @@ TopicB :> <<3, 1>>), conf |-> <<4, 5>>,
      entropy |-> One, active |-> 120, span |-> <<5, 1>>]}

\* calculateSessionDurationFromBehaviors: the larger of the active time
\* (seconds / 60), the span of the valid start and end times, and 1
CalculateSessionDuration(activeSeconds, spanMinutes) ==
    RMax(RMax(Rat(activeSeconds, 60), spanMinutes), One)

\* buildSTP for a session with events
BuildSTP(sessionId, content, day) ==
    [session_id |-> sessionId,
     session_length_min |-> CalculateSessionDuration(content.active, content.span),
     engagement_confidence |-> RMax(Zero, RMin(One, content.conf)),
     diversity_entropy |-> RMax(Zero, RMin(One, content.entropy)),
     topic_cumulative |-> BuildEnhancedTopicCumulative(content.raw),
     calculated_at |-> day]

\* every STP buildSTP can return for a session: the neutral STP (no events
\* found, or an internal error) or a built one
STPsOf(sessionId, day) ==
    {GetEmptySTP(sessionId, day)} \cup
    {BuildSTP(sessionId, c, day) : c \in SessionContents}

(***************************** the profile row *****************************)
NullSTP == [null |-> TRUE]

\* getDefaultProfile
GetDefaultProfile ==
    [userId |-> "default", ltp |-> GetEmptyLTP, stpHistory |-> <<>>,
     lastSTP |-> NullSTP]

\* getDemoProfileData: no userId; an LTP with sessions_seen 0, confidence
\* 0.4 and last_updated one day ago; two demo sessions and a demo lastSTP
DemoLTP(day) ==
    [topic_cumulative |-> <<>>, sessions_seen |-> 0, ewma_focus |-> Half,
     ewma_depth |-> Half, last_updated |-> day - 1, confidence |-> <<2, 5>>]

GetDemoProfileData(day) ==
    [userId |-> "undefined", ltp |-> DemoLTP(day),
     stpHistory |-> <<[demo |-> 1], [demo |-> 2]>>,
     lastSTP |-> [demo |-> 0]]

\* getProfile: a stored profile whose lastSTP is null is answered with the
\* demo profile
GetProfile(stored, day) ==
    IF stored.lastSTP = NullSTP THEN GetDemoProfileData(day) ELSE stored

\* saveSTPToProfile: unshift into stpHistory, keep the first 50, set lastSTP
Unshift(history, stp) ==
    LET h == <<stp>> \o history
    IN  IF Len(h) > HistoryCap THEN SubSeq(h, 1, HistoryCap) ELSE h

WithSTP(prof, stp) ==
    [prof EXCEPT !.userId = "default",
                 !.stpHistory = Unshift(@, stp),
                 !.lastSTP = stp]

\* saveLTPToProfile: profile.ltp = ltpData; validateProfileStructure fills
\* in a missing userId
WithLTP(prof, ltp) == [prof EXCEPT !.userId = "default", !.ltp = ltp]

(***************************************************************************)
(* DatabaseService.saveBehaviorData, one invocation per message.  Local    *)
(* variables of an invocation: sid (the record's session id), last (the    *)
(* lastSessionId it read), stp, prof (the profile it read), cur and upd    *)
(* (the LTP it read and the LTP it computed), saved (saveLTPToProfile put   *)
(* the LTP) and ret (what buildLTP returned to its caller).                *)
(***************************************************************************)
MaxHandlers == 2     \* saveBehaviorData invocations in progress
MaxMessages == 3     \* saveBehaviorData messages handled
MaxSessions == 2     \* distinct session ids
MaxMonths == 1       \* times the calendar advances by DECAY_DAYS

Sessions == 1..MaxSessions
NoSession == 0

IdleHandler ==
    [pc |-> "idle", sid |-> NoSession, last |-> NoSession, stp |-> NullSTP,
     prof |-> NullSTP, cur |-> GetEmptyLTP, upd |-> GetEmptyLTP,
     saved |-> FALSE, ret |-> "none", wait |-> NoTask]

DbInit ==
    /\ lastSessionId = NoSession
    /\ urlBehaviors = {}
    /\ profile = GetDefaultProfile
    /\ handlers = [h \in 1..MaxHandlers |-> IdleHandler]
    /\ buildLog = [s \in Sessions |-> [stp |-> 0, ltp |-> 0, aborted |-> 0]]
    /\ today = 1
    /\ msgCount = 0

\* the calendar advances
DayTick ==
    /\ today < 1 + MaxMonths * DECAY_DAYS
    /\ today' = today + DECAY_DAYS
    /\ UNCHANGED <<lastSessionId, urlBehaviors, profile, handlers, buildLog,
                   msgCount>>
    /\ UNCHANGED <<schedVars, calc, flagVars>>

\* saveBehaviorData up to checkAndAggregateDomainBehavior: the record of
\* (sessionId, tabId, url) is added or updated
SaveBehaviorData(h, s) ==
    /\ handlers[h].pc = "idle"
    /\ \A o \in 1..(h - 1) : handlers[o].pc # "idle"
    /\ msgCount < MaxMessages
    /\ msgCount' = msgCount + 1
    /\ urlBehaviors' = urlBehaviors \cup {s}
    /\ handlers' = [handlers EXCEPT ![h] = [IdleHandler EXCEPT !.pc = "check",
                                                              !.sid = s]]
    /\ UNCHANGED <<lastSessionId, profile, buildLog, today>>
    /\ UNCHANGED <<schedVars, calc, flagVars>>

\* checkAndAggregateDomainBehavior: systemState.get('lastSessionId').  No
\* last session or the same session: only the put remains.
SessionEnded(last, current) == last # NoSession /\ last # current

CheckLastSession(h) ==
    /\ handlers[h].pc = "check"
    /\ handlers' = [handlers EXCEPT
          ![h].last = lastSessionId,
          ![h].pc = IF SessionEnded(lastSessionId, handlers[h].sid)
                    THEN "query" ELSE "putLast"]
    /\ UNCHANGED <<lastSessionId, urlBehaviors, profile, buildLog, today, msgCount>>
    /\ UNCHANGED <<schedVars, calc, flagVars>>

\* the urlBehaviors of the previous session are read; with none, only the
\* put remains.  aggregateDomainData writes db.domainBehaviors only.
QueryBehaviors(h) ==
    /\ handlers[h].pc = "query"
    /\ handlers' = [handlers EXCEPT
          ![h].pc = IF handlers[h].last \in urlBehaviors
                    THEN "buildSTP" ELSE "putLast"]
    /\ UNCHANGED <<lastSessionId, urlBehaviors, profile, buildLog, today, msgCount>>
    /\ UNCHANGED <<schedVars, calc, flagVars>>

\* buildAndSaveSTP: buildSTP(lastSessionId)
BuildSTPStep(h, stp) ==
    /\ handlers[h].pc = "buildSTP"
    /\ handlers' = [handlers EXCEPT ![h].stp = stp, ![h].pc = "saveSTPRead"]
    /\ buildLog' = [buildLog EXCEPT ![handlers[h].last].stp = @ + 1]
    /\ UNCHANGED <<lastSessionId, urlBehaviors, profile, today, msgCount>>
    /\ UNCHANGED <<schedVars, calc, flagVars>>

\* saveSTPToProfile: profile = await this.getProfile()
SaveSTPRead(h) ==
    /\ handlers[h].pc = "saveSTPRead"
    /\ handlers' = [handlers EXCEPT ![h].prof = GetProfile(profile, today),
                                    ![h].pc = "saveSTPPut"]
    /\ UNCHANGED <<lastSessionId, urlBehaviors, profile, buildLog, today, msgCount>>
    /\ UNCHANGED <<schedVars, calc, flagVars>>

\* saveSTPToProfile: db.profile.put(profile, 'default')
SaveSTPPut(h) ==
    /\ handlers[h].pc = "saveSTPPut"
    /\ profile' = WithSTP(handlers[h].prof, handlers[h].stp)
    /\ handlers' = [handlers EXCEPT ![h].prof = NullSTP, ![h].pc = "buildLTP"]
    /\ UNCHANGED <<lastSessionId, urlBehaviors, buildLog, today, msgCount>>
    /\ UNCHANGED <<schedVars, calc, flagVars>>

\* LTPBuilder.buildLTP: getProfile, then coldStartLTP or updateLTP
BuildLTPStep(h) ==
    /\ handlers[h].pc = "buildLTP"
    /\ LET currentLTP == GetProfile(profile, today).ltp
       IN  handlers' = [handlers EXCEPT
              ![h].cur = currentLTP,
              ![h].upd = BuildLTP(currentLTP, handlers[h].stp),
              ![h].pc = "saveLTPRead"]
    /\ buildLog' = [buildLog EXCEPT ![handlers[h].last].ltp = @ + 1]
    /\ UNCHANGED <<lastSessionId, urlBehaviors, profile, today, msgCount>>
    /\ UNCHANGED <<schedVars, calc, flagVars>>

\* saveLTPToProfile: profile = await this.dbService.getProfile()
SaveLTPRead(h) ==
    /\ handlers[h].pc = "saveLTPRead"
    /\ handlers' = [handlers EXCEPT ![h].prof = GetProfile(profile, today),
                                    ![h].pc = "saveLTPPut"]
    /\ UNCHANGED <<lastSessionId, urlBehaviors, profile, buildLog, today, msgCount>>
    /\ UNCHANGED <<schedVars, calc, flagVars>>

\* saveLTPToProfile: db.profile.put(profile, 'default'); buildLTP then
\* returns updatedLTP
SaveLTPPut(h) ==
    /\ handlers[h].pc = "saveLTPPut"
    /\ profile' = WithLTP(handlers[h].prof, handlers[h].upd)
    /\ handlers' = [handlers EXCEPT ![h].prof = NullSTP, ![h].saved = TRUE,
                                    ![h].ret = "ltp", ![h].pc = "summary"]
    /\ UNCHANGED <<lastSessionId, urlBehaviors, buildLog, today, msgCount>>
    /\ UNCHANGED <<schedVars, calc, flagVars>>

\* saveLTPToProfile: the put rejects; the catch block retries once
SaveLTPPutFails(h) ==
    /\ handlers[h].pc = "saveLTPPut"
    /\ handlers' = [handlers EXCEPT ![h].prof = NullSTP, ![h].pc = "retryRead"]
    /\ UNCHANGED <<lastSessionId, urlBehaviors, profile, buildLog, today, msgCount>>
    /\ UNCHANGED <<schedVars, calc, flagVars>>

\* saveLTPToProfile, retry: profile = await this.dbService.getProfile()
SaveLTPRetryRead(h) ==
    /\ handlers[h].pc = "retryRead"
    /\ handlers' = [handlers EXCEPT ![h].prof = GetProfile(profile, today),
                                    ![h].pc = "retryPut"]
    /\ UNCHANGED <<lastSessionId, urlBehaviors, profile, buildLog, today, msgCount>>
    /\ UNCHANGED <<schedVars, calc, flagVars>>

\* what buildLTP returns after saveLTPToProfile: `return updatedLTP`, the
\* {success} object of saveLTPToProfile is not looked at
BuildLTPReturn(success) == "ltp"

\* saveLTPToProfile, retry: the put, without validateProfileStructure; a
\* second rejection is answered with {success: false}
SaveLTPRetryPut(h, ok) ==
    /\ handlers[h].pc = "retryPut"
    /\ profile' = IF ok THEN [handlers[h].prof EXCEPT !.ltp = handlers[h].upd]
                  ELSE profile
    /\ handlers' = [handlers EXCEPT ![h].prof = NullSTP, ![h].saved = ok,
                                    ![h].ret = BuildLTPReturn(ok),
                                    ![h].pc = "summary"]
    /\ UNCHANGED <<lastSessionId, urlBehaviors, buildLog, today, msgCount>>
    /\ UNCHANGED <<schedVars, calc, flagVars>>

\* checkAndAggregateDomainBehavior, catch: the error is logged, the
\* invocation ends and lastSessionId is not written
Abort(h) ==
    /\ handlers' = [handlers EXCEPT ![h] = IdleHandler]
    /\ buildLog' = [buildLog EXCEPT ![handlers[h].last].aborted = @ + 1]
    /\ UNCHANGED <<lastSessionId, urlBehaviors, profile, today, msgCount>>
    /\ UNCHANGED <<schedVars, calc, flagVars>>

\* buildLTP: getProfile rejects and buildLTP throws
BuildLTPThrows(h) ==
    /\ handlers[h].pc = "buildLTP"
    /\ Abort(h)

\* triggerSummaryGeneration has returned (SummarySpec follows it through the
\* scheduler) and debugSummaryGeneration's getProfile succeeds
SummaryDone(h) ==
    /\ handlers[h].pc = "summary"
    /\ handlers' = [handlers EXCEPT ![h].pc = "putLast"]
    /\ UNCHANGED <<lastSessionId, urlBehaviors, profile, buildLog, today, msgCount>>
    /\ UNCHANGED <<schedVars, calc, flagVars>>

\* debugSummaryGeneration: getProfile rejects
DebugSummaryThrows(h) ==
    /\ handlers[h].pc = "summary"
    /\ Abort(h)

\* systemState.put({key: 'lastSessionId', value: currentSessionId})
PutLastSession(h) ==
    /\ handlers[h].pc = "putLast"
    /\ lastSessionId' = handlers[h].sid
    /\ handlers' = [handlers EXCEPT ![h] = IdleHandler]
    /\ UNCHANGED <<urlBehaviors, profile, buildLog, today, msgCount>>
    /\ UNCHANGED <<schedVars, calc, flagVars>>

DbNext ==
    \/ DayTick
    \/ \E h \in 1..MaxHandlers, s \in Sessions : SaveBehaviorData(h, s)
    \/ \E h \in 1..MaxHandlers : CheckLastSession(h)
    \/ \E h \in 1..MaxHandlers : QueryBehaviors(h)
    \/ \E h \in 1..MaxHandlers :
          \E stp \in STPsOf(handlers[h].last, today) : BuildSTPStep(h, stp)
    \/ \E h \in 1..MaxHandlers : SaveSTPRead(h)
    \/ \E h \in 1..MaxHandlers : SaveSTPPut(h)
    \/ \E h \in 1..MaxHandlers : BuildLTPStep(h)
    \/ \E h \in 1..MaxHandlers : SaveLTPRead(h)
    \/ \E h \in 1..MaxHandlers : SaveLTPPut(h)
    \/ \E h \in 1..MaxHandlers : SummaryDone(h)
    \/ \E h \in 1..MaxHandlers : PutLastSession(h)

\* the messages handled one after the other
MergeNext ==
    \/ DayTick
    \/ \E s \in Sessions : SaveBehaviorData(1, s)
    \/ CheckLastSession(1)
    \/ QueryBehaviors(1)
    \/ \E stp \in STPsOf(handlers[1].last, today) : BuildSTPStep(1, stp)
    \/ SaveSTPRead(1)
    \/ SaveSTPPut(1)
    \/ BuildLTPStep(1)
    \/ SaveLTPRead(1)
    \/ SaveLTPPut(1)
    \/ SummaryDone(1)
    \/ PutLastSession(1)

\* the messages handled one after the other by a database whose reads and
\* writes of the profile can be rejected
IoFaultNext ==
    \/ \E s \in Sessions : SaveBehaviorData(1, s)
    \/ CheckLastSession(1)
    \/ QueryBehaviors(1)
    \/ \E stp \in STPsOf(handlers[1].last, today) : BuildSTPStep(1, stp)
    \/ SaveSTPRead(1)
    \/ SaveSTPPut(1)
    \/ BuildLTPStep(1)
    \/ BuildLTPThrows(1)
    \/ SaveLTPRead(1)
    \/ SaveLTPPut(1)
    \/ SaveLTPPutFails(1)
    \/ SaveLTPRetryRead(1)
    \/ \E ok \in BOOLEAN : SaveLTPRetryPut(1, ok)
    \/ SummaryDone(1)
    \/ DebugSummaryThrows(1)
    \/ PutLastSession(1)

(***************************************************************************)
(* The pure functions, called on their own with arguments the callers can  *)
(* pass: raw topic maps (topics are numbered here) and timestamps.         *)
(***************************************************************************)
MaxTopics == 3       \* topics of a raw topic map
ManyTopics == 101    \* topics of a session that spreads evenly over many

MinShare == <<1, 100>>

\* normalizeTopicMap keeps the topics whose share is at least 0.01
KeepTopic_All(share) == TRUE

KeepTopic(share) == RLe(MinShare, share)

\* normalizeTopicMap: "Re-normalize if we filtered out small scores"
Renormalize_Skip(shares) == shares

Renormalize(shares) ==
    LET newTotal == SumScores(shares, DOMAIN shares)
    IN  IF RLt(Zero, newTotal)
        THEN [t \in DOMAIN shares |-> RDiv(shares[t], newTotal)]
        ELSE shares

\* normalizeTopicMap
NormalizeTopicMap(topicMap) ==
    LET totalScore == SumScores(topicMap, DOMAIN topicMap)
    IN  IF totalScore = Zero THEN <<>>
        ELSE LET kept == {t \in DOMAIN topicMap :
                             KeepTopic(RDiv(topicMap[t], totalScore))}
             IN  Renormalize([t \in kept |-> RDiv(topicMap[t], totalScore)])

\* scores buildUrlTopicMap and mergeTopicMaps can give a topic
RawScores == {Zero, <<1, 200>>, Half, One}

TopicMaps ==
    UNION {[S -> RawScores] : S \in SUBSET (1..MaxTopics)}
    \cup {[t \in 1..ManyTopics |-> One]}

Timestamps == {1 + DECAY_DAYS * k : k \in 0..(MaxMonths + 2)}

NoCall == [op |-> "none"]

CalcInit == calc = NoCall

NormalizeTopicMapCall(topicMap) ==
    /\ calc' = [op |-> "normalizeTopicMap", arg |-> topicMap,
                ret |-> NormalizeTopicMap(topicMap)]
    /\ UNCHANGED <<schedVars, dbVars, flagVars>>

\* the result of normalizeTopicMap is normalized again
NormalizeTopicMapAgain ==
    /\ calc.op = "normalizeTopicMap"
    /\ calc' = [op |-> "normalizeTopicMap twice", arg |-> calc.ret,
                ret |-> NormalizeTopicMap(calc.ret)]
    /\ UNCHANGED <<schedVars, dbVars, flagVars>>

CalculateTimeDecayCall(lastUpdated, newTimestamp) ==
    /\ calc' = [op |-> "calculateTimeDecay", lastUpdated |-> lastUpdated,
                newTimestamp |-> newTimestamp,
                ret |-> CalculateTimeDecay(lastUpdated, newTimestamp)]
    /\ UNCHANGED <<schedVars, dbVars, flagVars>>

\* buildSTP: topic_cumulative of a session with the raw topic map given
BuildEnhancedTopicCumulativeCall(rawTopicMap) ==
    /\ calc' = [op |-> "buildEnhancedTopicCumulative", arg |-> rawTopicMap,
                ret |-> BuildEnhancedTopicCumulative(rawTopicMap)]
    /\ UNCHANGED <<schedVars, dbVars, flagVars>>

CalcNext ==
    \/ \E m \in TopicMaps : NormalizeTopicMapCall(m)
    \/ \E m \in TopicMaps : BuildEnhancedTopicCumulativeCall(m)
    \/ NormalizeTopicMapAgain
    \/ \E l \in Timestamps \cup {NullTime}, n \in Timestamps :
          CalculateTimeDecayCall(l, n)

(***************************************************************************)
(* triggerSummaryGeneration, called by checkAndAggregateDomainBehavior      *)
(* after buildLTP.  databaseService.js is loaded by importScripts into the  *)
(* scope of background.js, whose global `backgroundService` exists, so the  *)
(* call goes to handleProfileSummaryGeneration -> handleAITaskRequest ->    *)
(* scheduleAITask with priority 1.                                          *)
(***************************************************************************)
SummaryRow == [pid |-> 0, type |-> "PROFILE_SUMMARY_GENERATION",
               priority |-> PRIORITY_HIGH, createdAt |-> 0, query |-> 0]

\* triggerSummaryGeneration up to its await: already in progress: return.
\* Otherwise the flag is set; scheduleAITask answers {success: false} at
\* once when there is no language model, and triggerSummaryGeneration logs
\* that result and returns; else the task is queued and awaited.
TriggerSummaryGeneration(h) ==
    /\ handlers[h].pc = "summary"
    /\ IF summaryGenerationInProgress
       THEN /\ handlers' = [handlers EXCEPT ![h].pc = "debug"]
            /\ UNCHANGED <<summaryGenerationInProgress, taskQueue, nextUid, pqProbe>>
       ELSE /\ summaryGenerationInProgress' = TRUE
            /\ IF ~languageModel
               THEN /\ handlers' = [handlers EXCEPT ![h].pc = "debug"]
                    /\ UNCHANGED <<taskQueue, nextUid, pqProbe>>
               ELSE /\ nextUid <= MaxTasks
                    /\ taskQueue' = AddToQueue(PRIORITY_HIGH, SummaryRow, taskQueue)
                    /\ nextUid' = nextUid + 1
                    /\ pqProbe' = StartProcessQueue(pqProbe)
                    /\ handlers' = [handlers EXCEPT ![h].pc = "awaitSummary",
                                                    ![h].wait = nextUid]
    /\ UNCHANGED <<languageModel, isProcessing, pqRecover, executing, execLog,
                   resolved, outcome, now, aiQueue, nextPid, pollers>>
    /\ UNCHANGED <<lastSessionId, urlBehaviors, profile, buildLog, today, msgCount>>
    /\ UNCHANGED <<calc, urlRecords, savers>>

\* triggerSummaryGeneration after the await: the result is logged
SummaryReturned(h) ==
    /\ handlers[h].pc = "awaitSummary"
    /\ resolved[handlers[h].wait] # <<>>
    /\ handlers' = [handlers EXCEPT ![h].pc = "debug", ![h].wait = NoTask]
    /\ UNCHANGED <<lastSessionId, urlBehaviors, profile, buildLog, today, msgCount>>
    /\ UNCHANGED <<schedVars, calc, flagVars>>

\* debugSummaryGeneration, whose getProfile succeeds
DebugSummaryDone(h) ==
    /\ handlers[h].pc = "debug"
    /\ handlers' = [handlers EXCEPT ![h].pc = "putLast"]
    /\ UNCHANGED <<lastSessionId, urlBehaviors, profile, buildLog, today, msgCount>>
    /\ UNCHANGED <<schedVars, calc, flagVars>>

\* one session close after the other, from the last session check to the
\* put of lastSessionId: the steps that end an await other than buildSTP's
CloseProgress ==
    \/ CheckLastSession(1)
    \/ QueryBehaviors(1)
    \/ SaveSTPRead(1)
    \/ SaveSTPPut(1)
    \/ BuildLTPStep(1)
    \/ SaveLTPRead(1)
    \/ SaveLTPPut(1)
    \/ TriggerSummaryGeneration(1)
    \/ SummaryReturned(1)
    \/ DebugSummaryDone(1)
    \/ PutLastSession(1)

CloseStep ==
    \/ \E stp \in STPsOf(handlers[1].last, today) : BuildSTPStep(1, stp)
    \/ CloseProgress

\* the handler of a summary task ends in saveCombinedProfileSummary
SummaryOutcomes == {"ok", "fallback"}

SummaryNext ==
    \/ InitializeNano
    \/ \E ok \in BOOLEAN : PQProbeDone(ok)
    \/ \E threw \in BOOLEAN : PQRecoverDone(threw)
    \/ \E t \in executing, o \in SummaryOutcomes : ExecDone(t, o, FALSE)
    \/ \E s \in Sessions : SaveBehaviorData(1, s)
    \/ CloseStep

(***************************************************************************)
(* saveBehaviorData up to the end of maybeAddTopicInferenceTask, for the    *)
(* messages about one (sessionId, tabId, url), and updateTopicDomains.      *)
(* contentSample is modelled by whether it is a string of more than 100     *)
(* characters.  A row of urlRecords also carries two history fields:        *)
(* enqueued, the TOPIC_INFERENCE tasks queued for it, and stored, whether   *)
(* updateTopicDomains has stored a result for it.                           *)
(***************************************************************************)
MaxSavers == 2       \* overlapping saveBehaviorData invocations for the key

NoRecord == 0

IdleSaver == [pc |-> "idle", rec |-> NoRecord, content |-> FALSE,
              sent |-> FALSE, processing |-> FALSE]

FlagInit ==
    /\ summaryGenerationInProgress = FALSE
    /\ urlRecords = <<>>
    /\ savers = [k \in 1..MaxSavers |-> IdleSaver]

\* `.where('[sessionId+tabId+url]').equals(...).first()`
ExistingRecord == IF urlRecords = <<>> THEN NoRecord ELSE 1

\* saveBehaviorData: the existing record is read and urlBehaviorData is
\* prepared with `existingRecord?.topicInferenceSent || false`, the same for
\* topicInferenceProcessing, and
\* `behaviorData.contentSample || existingRecord?.contentSample || null`
SaveRecordRead(k, content) ==
    /\ savers[k].pc = "idle"
    /\ \A o \in 1..(k - 1) : savers[o].pc # "idle"
    /\ msgCount < MaxMessages
    /\ msgCount' = msgCount + 1
    /\ LET id == ExistingRecord
       IN  savers' = [savers EXCEPT ![k] =
              [pc |-> "write", rec |-> id,
               content |-> content \/ (id # NoRecord /\ urlRecords[id].content),
               sent |-> id # NoRecord /\ urlRecords[id].sent,
               processing |-> id # NoRecord /\ urlRecords[id].processing]]
    /\ UNCHANGED <<lastSessionId, urlBehaviors, profile, handlers, buildLog, today>>
    /\ UNCHANGED <<schedVars, calc, summaryGenerationInProgress, urlRecords>>

\* maybeAddTopicInferenceTask's conditions, on the values saveBehaviorData
\* passes from urlBehaviorData
CanProcess(inferenceSent, inferenceProcessing) ==
    ~inferenceProcessing /\ ~inferenceSent

\* saveBehaviorData: db.urlBehaviors.update(recordId, urlBehaviorData) or
\* .add(urlBehaviorData), then maybeAddTopicInferenceTask up to its
\* `await this.db.urlBehaviors.get(recordId)`
SaveRecordWrite(k) ==
    /\ savers[k].pc = "write"
    /\ LET sv == savers[k]
           id == IF sv.rec = NoRecord THEN Len(urlRecords) + 1 ELSE sv.rec
           go == sv.content /\ CanProcess(sv.sent, sv.processing)
       IN  /\ urlRecords' =
                 IF sv.rec = NoRecord
                 THEN Append(urlRecords,
                             [content |-> sv.content, sent |-> sv.sent,
                              processing |-> sv.processing,
                              enqueued |-> 0, stored |-> FALSE])
                 ELSE [urlRecords EXCEPT ![id].content = sv.content,
                                         ![id].sent = sv.sent,
                                         ![id].processing = sv.processing]
           /\ savers' = [savers EXCEPT ![k] =
                 IF go THEN [sv EXCEPT !.pc = "enqueue", !.rec = id]
                 ELSE IdleSaver]
    /\ UNCHANGED <<dbVars, schedVars, calc, summaryGenerationInProgress>>

\* maybeAddTopicInferenceTask: the record read back has no topicDomain
\* (saveBehaviorData gets topicDomain: null from the background script and
\* updateTopicDomains writes the field topicDomains), so addToAIQueue runs
MaybeAddEnqueue(k) ==
    /\ savers[k].pc = "enqueue"
    /\ nextPid <= MaxPersisted
    /\ aiQueue' = aiQueue \cup {NewRow("TOPIC_INFERENCE", savers[k].rec)}
    /\ nextPid' = nextPid + 1
    /\ urlRecords' = [urlRecords EXCEPT ![savers[k].rec].enqueued = @ + 1]
    /\ savers' = [savers EXCEPT ![k].pc = "flag"]
    /\ UNCHANGED <<languageModel, taskQueue, isProcessing, pqProbe, pqRecover,
                   executing, execLog, resolved, outcome, nextUid, now, pollers>>
    /\ UNCHANGED <<dbVars, calc, summaryGenerationInProgress>>

\* maybeAddTopicInferenceTask: update(recordId, {topicInferenceProcessing: true})
MaybeAddFlag(k) ==
    /\ savers[k].pc = "flag"
    /\ urlRecords' = [urlRecords EXCEPT ![savers[k].rec].processing = TRUE]
    /\ savers' = [savers EXCEPT ![k] = IdleSaver]
    /\ UNCHANGED <<dbVars, schedVars, calc, summaryGenerationInProgress>>

\* updateTopicDomains(recordId, topicDomains, queueTaskId), called when the
\* TOPIC_INFERENCE task of the row has run: the flags of the record are
\* written and the row is deleted
UpdateTopicDomains(row) ==
    /\ row \in aiQueue
    /\ row.type = "TOPIC_INFERENCE"
    /\ urlRecords' = [urlRecords EXCEPT ![row.query].sent = TRUE,
                                        ![row.query].processing = FALSE,
                                        ![row.query].stored = TRUE]
    /\ aiQueue' = aiQueue \ {row}
    /\ UNCHANGED <<languageModel, taskQueue, isProcessing, pqProbe, pqRecover,
                   executing, execLog, resolved, outcome, nextUid, now, nextPid,
                   pollers>>
    /\ UNCHANGED <<dbVars, calc, summaryGenerationInProgress, savers>>

TopicNext ==
    \/ \E k \in 1..MaxSavers, content \in BOOLEAN : SaveRecordRead(k, content)
    \/ \E k \in 1..MaxSavers : SaveRecordWrite(k)
    \/ \E k \in 1..MaxSavers : MaybeAddEnqueue(k)
    \/ \E k \in 1..MaxSavers : MaybeAddFlag(k)
    \/ \E row \in aiQueue : UpdateTopicDomains(row)

Init == SchedInit /\ DbInit /\ CalcInit /\ FlagInit

SchedSpec == Init /\ [][SchedNext]_vars

PollSpec == Init /\ [][PollNext]_vars

DbSpec == Init /\ [][DbNext]_vars

MergeSpec == Init /\ [][MergeNext]_vars

IoFaultSpec == Init /\ [][IoFaultNext]_vars

CalcSpec == Init /\ [][CalcNext]_vars

TopicSpec == Init /\ [][TopicNext]_vars

\* the session closes with a scheduler whose probes, recoveries and
\* executions end, and whose probes and recoveries do not fail for ever;
\* every await of a session close ends (buildSTP's steps are enabled
\* together, so fairness of one of them is fairness of the await)
SummarySpec ==
    /\ Init
    /\ [][SummaryNext]_vars
    /\ WF_vars(InitializeNano)
    /\ SF_vars(PQProbeDone(TRUE))
    /\ SF_vars(PQRecoverDone(FALSE))
    /\ WF_vars(\E ok \in BOOLEAN : PQProbeDone(ok))
    /\ WF_vars(\E threw \in BOOLEAN : PQRecoverDone(threw))
    /\ WF_vars(\E t \in executing : ExecDone(t, "ok", FALSE))
    /\ WF_vars(BuildSTPStep(1, GetEmptySTP(handlers[1].last, today)))
    /\ WF_vars(CloseProgress)

(***************************************************************************)
(* Scheduler with the poller, where the environment is fair: probes and    *)
(* recoveries settle, healthy outcomes are not withheld for ever, task     *)
(* executions settle, and setInterval keeps firing the poller.  Nothing    *)
(* obliges a message handler to submit another task.                       *)
(***************************************************************************)
FairNext ==
    \/ InitializeNano
    \/ \E pr \in SubmitPriorities : Submit(pr)
    \/ \E ok \in BOOLEAN : PQProbeDone(ok)
    \/ \E threw \in BOOLEAN : PQRecoverDone(threw)
    \/ \E t \in executing, o \in HandlerOutcomes, m \in BOOLEAN : ExecDone(t, o, m)
    \/ \E p \in 1..MaxPollers : PollTick(p)
    \/ \E p \in 1..MaxPollers, ok \in BOOLEAN : PollProbeDone(p, ok)
    \/ \E p \in 1..MaxPollers, threw \in BOOLEAN : PollRecoverDone(p, threw)
    \/ \E p \in 1..MaxPollers : PollCount(p)

FairSpec ==
    /\ Init
    /\ [][FairNext]_vars
    /\ WF_vars(InitializeNano)
    /\ SF_vars(PQProbeDone(TRUE))
    /\ SF_vars(PQRecoverDone(FALSE))
    /\ WF_vars(\E ok \in BOOLEAN : PQProbeDone(ok))
    /\ WF_vars(\E threw \in BOOLEAN : PQRecoverDone(threw))
    /\ WF_vars(\E t \in executing, m \in BOOLEAN : ExecDone(t, "ok", m))
    /\ WF_vars(\E p \in 1..MaxPollers : PollTick(p))
    /\ SF_vars(\E p \in 1..MaxPollers : PollProbeDone(p, TRUE))
    /\ WF_vars(\E p \in 1..MaxPollers, ok \in BOOLEAN : PollProbeDone(p, ok))
    /\ WF_vars(\E p \in 1..MaxPollers, threw \in BOOLEAN : PollRecoverDone(p, threw))
    /\ WF_vars(\E p \in 1..MaxPollers : PollCount(p))

(************************ claims on the scheduler **************************)
ExecutingUids == {t.uid : t \in executing}
QueuedUids == {taskQueue[i].uid : i \in 1..Len(taskQueue)}
LoggedUids == {execLog[i] : i \in 1..Len(execLog)}
PollerProbes == Cardinality({p \in 1..MaxPollers : pollers[p].pc = "probe"})

\* languageModel.prompt calls in flight: health probes of processQueue and
\* of the poller, and the task executions.
InFlight == pqProbe + PollerProbes + Cardinality(executing)

\* C1: at no instant are two tasks in the executing state.
C1_MutualExclusion == Cardinality(executing) <= 1

\* C2: at most one call to the shared inference resource is in flight: no
\* two executions overlap and no health probe overlaps an execution or
\* another probe.
C2_SingleInFlight == InFlight <= 1

(***************************************************************************)
(* C4.  a is not later than b in (priority asc, createdAt asc).            *)
(***************************************************************************)
NotLater(a, b) ==
    \/ a.priority < b.priority
    \/ a.priority = b.priority /\ a.timestamp <= b.timestamp

\* the task objects that are queued or executing
LiveTasks == {taskQueue[i] : i \in 1..Len(taskQueue)} \cup executing

\* the first three task objects are A, B, C, in creation order
ABC == {1, 2, 3}
PriorityABC(u) == IF u = 2 THEN 1 ELSE 2
RankBAC(u) == IF u = 2 THEN 1 ELSE IF u = 1 THEN 2 ELSE 3

\* A, B and C are all queued or executing, with priorities [2,1,2]
ExampleABC ==
    /\ \A u \in ABC : \E t \in LiveTasks : t.uid = u
    /\ \A t \in LiveTasks : t.uid \in ABC => t.priority = PriorityABC(t.uid)

RECURSIVE OrderOfABC(_)
OrderOfABC(log) ==
    IF log = <<>> THEN <<>>
    ELSE IF Head(log) \in ABC THEN <<Head(log)>> \o OrderOfABC(Tail(log))
         ELSE OrderOfABC(Tail(log))

IsPrefix(s, t) == Len(s) <= Len(t) /\ SubSeq(t, 1, Len(s)) = s

\* C4 as stated: a dequeued task is the least of the queued tasks in
\* (priority, creation time), and A, B, C with priorities [2,1,2] execute
\* in the order B, A, C.
C4_Original ==
    ExampleABC => IsPrefix(OrderOfABC(execLog), <<2, 1, 3>>)

\* C4 as amended: a dequeued task is not later, in (priority, creation
\* time), than any task queued with it; those of A, B, C (priorities
\* [2,1,2]) that are queued together are dequeued in the order B, A, C.
C4_DequeueOrder ==
    [][\A t \in executing' \ executing :
          /\ \A k \in 1..Len(taskQueue) : NotLater(t, taskQueue[k])
          /\ (/\ t.uid \in ABC
              /\ \A k \in 1..Len(taskQueue) :
                    taskQueue[k].uid \in ABC =>
                        taskQueue[k].priority = PriorityABC(taskQueue[k].uid))
             => \A k \in 1..Len(taskQueue) :
                    taskQueue[k].uid \in ABC =>
                        RankBAC(t.uid) <= RankBAC(taskQueue[k].uid)]_vars

\* B was dequeued first while A and C, created around it, wait in the
\* queue with their priorities [2,1,2]
C4_Witness ==
    /\ ExampleABC
    /\ OrderOfABC(execLog) = <<2>>
    /\ {1, 3} \subseteq QueuedUids

(***************************************************************************)
(* C5: a task accepted by addToQueue is executed at most once and its      *)
(* promise is resolved at most once, with the result of its own execution. *)
(***************************************************************************)
C5_AtMostOnce ==
    /\ \A i, j \in 1..Len(execLog) :
          execLog[i] = execLog[j] => i = j
    /\ \A u \in Uids :
          /\ Len(resolved[u]) <= 1
          /\ resolved[u] # <<>> =>
                /\ resolved[u][1].taskId = u
                /\ u \in LoggedUids
                /\ u \notin ExecutingUids
                /\ resolved[u][1].success = (outcome[u] # "throws")

C5_Witness ==
    Cardinality({u \in Uids : resolved[u] # <<>>}) >= 2

(***************************************************************************)
(* C6: when a task's execution throws, its promise is resolved with        *)
(* success = false and the error message, the busy flag is cleared, the    *)
(* queue is kept and processQueue is entered again when it is not empty.   *)
(***************************************************************************)
C6_FailureIsolated ==
    [][\A t \in executing :
          (t \notin executing' /\ outcome'[t.uid] = "throws") =>
              /\ resolved'[t.uid] = <<[success |-> FALSE,
                                       error |-> "handler error",
                                       taskId |-> t.uid]>>
              /\ isProcessing' = FALSE
              /\ taskQueue' = taskQueue
              /\ (taskQueue # <<>> => pqProbe' = pqProbe + 1)]_vars

\* a task failed and another task was dequeued after it
C6_Witness ==
    \E i \in 1..Len(execLog) :
        /\ outcome[execLog[i]] = "throws"
        /\ resolved[execLog[i]] # <<>>
        /\ i < Len(execLog)

(***************************************************************************)
(* C7: a task left in the queue by an unhealthy health check is eventually *)
(* executed and resolved once the resource is healthy again, through the   *)
(* next submit or the periodic tick.                                       *)
(***************************************************************************)
C7_QueuedEventuallyResolved ==
    \A u \in Uids : (u \in QueuedUids) ~> (resolved[u] # <<>>)

(********************* claims on the session pipeline **********************)
\* C3: buildSTP and then buildLTP run exactly once for a session that has
\* ended, whatever the interleaving of the saveBehaviorData messages and
\* whatever session ids older tabs still send: no session is built twice.
C3_BuiltOncePerSession ==
    \A s \in Sessions : buildLog[s].stp <= 1 /\ buildLog[s].ltp <= 1

\* the invocations that hold the result of a buildLTP not yet saved
Merging(h) == handlers[h].pc \in {"saveLTPRead", "saveLTPPut"}

LowConfidence(stp) == RLt(stp.engagement_confidence, QualityThreshold)

\* C8: a cold start (the LTP read has sessions_seen = 0) with an STP whose
\* engagement_confidence is below 0.5 leaves the persisted LTP as it was:
\* the empty template, with sessions_seen = 0.
C8_ColdStartRejectKeepsLTP ==
    [][\A h \in 1..MaxHandlers :
          (/\ handlers[h].pc = "saveLTPPut"
           /\ handlers'[h].pc = "summary"
           /\ handlers[h].cur.sessions_seen = 0
           /\ LowConfidence(handlers[h].stp))
          => /\ profile'.ltp = profile.ltp
             /\ profile'.ltp = GetEmptyLTP
             /\ profile'.ltp.sessions_seen = 0]_vars

\* C9: a cold start with an STP whose engagement_confidence is at least
\* 0.5 yields sessions_seen = 1, confidence = 1/8, topic_cumulative = the
\* STP's raw scores, ewma_focus = the STP's engagement_confidence and
\* last_updated = the STP's calculated_at.
C9_ColdStartLTP ==
    \A h \in 1..MaxHandlers :
        (/\ Merging(h)
         /\ IsColdStart(handlers[h].cur)
         /\ ~LowConfidence(handlers[h].stp))
        => LET stp == handlers[h].stp
               ltp == handlers[h].upd
           IN  /\ ltp.sessions_seen = 1
               /\ ltp.confidence = <<1, 8>>
               /\ DOMAIN ltp.topic_cumulative = DOMAIN stp.topic_cumulative
               /\ \A t \in DOMAIN stp.topic_cumulative :
                     ltp.topic_cumulative[t] = stp.topic_cumulative[t].rawScore
               /\ ltp.ewma_focus = stp.engagement_confidence
               /\ ltp.last_updated = stp.calculated_at

\* a cold start has accepted a session with two topics, whose raw scores
\* differ from their normalized weights
C9_Witness ==
    \E h \in 1..MaxHandlers :
        /\ Merging(h)
        /\ IsColdStart(handlers[h].cur)
        /\ ~LowConfidence(handlers[h].stp)
        /\ Cardinality(DOMAIN handlers[h].stp.topic_cumulative) = 2
        /\ handlers[h].upd.sessions_seen = 1

\* C10: a warm update gives every topic its decayed previous score (0 when
\* absent) plus the STP's raw score times the STP's engagement_confidence,
\* for every engagement_confidence including 0; a topic absent from the
\* STP keeps its decayed score.
C10_WarmMergeWeights ==
    \A h \in 1..MaxHandlers :
        (Merging(h) /\ ~IsColdStart(handlers[h].cur))
        => LET stp == handlers[h].stp
               cur == handlers[h].cur
               decayed == ApplyTimeDecay(cur.topic_cumulative,
                             CalculateTimeDecay(cur.last_updated,
                                                stp.calculated_at))
               merged == handlers[h].upd.topic_cumulative
           IN  /\ DOMAIN merged = DOMAIN decayed \cup DOMAIN stp.topic_cumulative
               /\ \A t \in DOMAIN merged :
                     merged[t] =
                        RAdd(IF t \in DOMAIN decayed THEN decayed[t] ELSE Zero,
                             IF t \in DOMAIN stp.topic_cumulative
                             THEN RMul(stp.topic_cumulative[t].rawScore,
                                       stp.engagement_confidence)
                             ELSE Zero)

\* the decayed scores a warm update starts from
DecayedOf(h) ==
    ApplyTimeDecay(handlers[h].cur.topic_cumulative,
                   CalculateTimeDecay(handlers[h].cur.last_updated,
                                      handlers[h].stp.calculated_at))

WarmMerging(h) == Merging(h) /\ ~IsColdStart(handlers[h].cur)

\* C11: a warm update adds exactly 1 to sessions_seen when the STP's
\* engagement_confidence is at least 0.5 and leaves it unchanged otherwise;
\* in both cases every topic of the STP with a positive raw score ends
\* above its decayed previous score.
C11_SessionsSeenStep ==
    \A h \in 1..MaxHandlers :
        WarmMerging(h)
        => LET stp == handlers[h].stp
               cur == handlers[h].cur
               upd == handlers[h].upd
           IN  /\ upd.sessions_seen =
                     IF LowConfidence(stp) THEN cur.sessions_seen
                     ELSE cur.sessions_seen + 1
               /\ \A t \in DOMAIN stp.topic_cumulative :
                     /\ t \in DOMAIN upd.topic_cumulative
                     /\ RLt(Zero, stp.topic_cumulative[t].rawScore) =>
                           RLt(IF t \in DOMAIN cur.topic_cumulative
                               THEN DecayedOf(h)[t] ELSE Zero,
                               upd.topic_cumulative[t])

\* a warm update merged the topics of a low-confidence session without
\* counting the session
C11_Witness ==
    \E h \in 1..MaxHandlers :
        /\ WarmMerging(h)
        /\ LowConfidence(handlers[h].stp)
        /\ DOMAIN handlers[h].stp.topic_cumulative # {}
        /\ handlers[h].upd.sessions_seen = handlers[h].cur.sessions_seen
        /\ handlers[h].upd.topic_cumulative # DecayedOf(h)

\* C12: every LTP persisted in the profile has confidence =
\* min(1, sessions_seen / 8), and the persisted confidence never decreases.
C12_ConfidenceOfSessions ==
    [][/\ profile'.ltp.confidence =
             RMin(One, Rat(profile'.ltp.sessions_seen,
                           MAX_SESSIONS_FOR_CONFIDENCE))
       /\ RLe(profile.ltp.confidence, profile'.ltp.confidence)]_vars

(********************** claims on the pure functions ***********************)
SumOf(map) == SumScores(map, DOMAIN map)

ShareOf(map, t) == RDiv(map[t], SumOf(map))

Normalized(c) == c.op \in {"normalizeTopicMap", "normalizeTopicMap twice"}

\* the weights lie in [0,1], sum to 1, and belong to topics whose share of
\* the total was at least 1%
ProperWeights(topicMap, weights) ==
    /\ \A t \in DOMAIN weights :
          /\ RLe(Zero, weights[t]) /\ RLe(weights[t], One)
          /\ t \in DOMAIN topicMap
          /\ RLe(MinShare, ShareOf(topicMap, t))
    /\ SumOf(weights) = One

C15_TimeDecay ==
    calc.op = "calculateTimeDecay" =>
        /\ RLe(Zero, calc.ret) /\ RLe(calc.ret, One)
        /\ (calc.lastUpdated = NullTime \/ calc.newTimestamp <= calc.lastUpdated)
              => calc.ret = One
        /\ \A later \in Timestamps :
              later >= calc.newTimestamp =>
                  RLe(CalculateTimeDecay(calc.lastUpdated, later), calc.ret)

\* the new timestamp was earlier than last_updated
C15_Witness ==
    /\ calc.op = "calculateTimeDecay"
    /\ calc.lastUpdated # NullTime
    /\ calc.newTimestamp < calc.lastUpdated
    /\ calc.ret = One

(***************** claims on persistence and its failures ******************)
\* C16: when the put of the merged LTP is rejected and the retry is
\* rejected too, buildLTP hands its caller a failure, not the merged LTP,
\* and the stored profile is left as it was.
C16_SaveFailureSurfaced ==
    [][\A h \in 1..MaxHandlers :
          (/\ handlers[h].pc = "retryPut"
           /\ handlers'[h].pc = "summary"
           /\ ~handlers'[h].saved)
          => /\ handlers'[h].ret = "failure"
             /\ profile' = profile]_vars

\* the first HistoryCap elements of a sequence
NewestFirst(history) ==
    IF Len(history) > HistoryCap THEN SubSeq(history, 1, HistoryCap)
    ELSE history

\* C17: stpHistory holds at most 50 snapshots, which are the STPs saved
\* most recently, newest first, and lastSTP is the STP saved last: a save
\* puts its STP in front of the stored history, evicts from the end, and
\* nothing else changes the history.
C17_HistoryOfSavedSTPs ==
    [][/\ Len(profile'.stpHistory) <= HistoryCap
       /\ \/ /\ profile'.stpHistory = profile.stpHistory
             /\ profile'.lastSTP = profile.lastSTP
          \/ \E h \in 1..MaxHandlers :
                /\ handlers[h].pc = "saveSTPPut"
                /\ profile'.stpHistory =
                      NewestFirst(<<handlers[h].stp>> \o profile.stpHistory)
                /\ profile'.lastSTP = handlers[h].stp]_vars

\* the invocations inside the read-modify-write of the profile
Processing(h) ==
    handlers[h].pc \in {"buildSTP", "saveSTPRead", "saveSTPPut", "buildLTP",
                        "saveLTPRead", "saveLTPPut", "retryRead", "retryPut",
                        "summary"}

\* C18: at most one session-closed processing is in progress at any time.
C18_SingleWriter ==
    Cardinality({h \in 1..MaxHandlers : Processing(h)}) <= 1

\* the snapshots of session s in the stored history
SnapshotsOf(s) ==
    {i \in 1..Len(profile.stpHistory) :
        /\ "session_id" \in DOMAIN profile.stpHistory[i]
        /\ profile.stpHistory[i].session_id = s}

\* C20: a session whose processing failed after its STP was saved has its
\* STP in stpHistory once and is merged into the LTP at most once, also
\* after later behaviour records.
C20_NoRepeatAfterFailure ==
    \A s \in Sessions :
        buildLog[s].aborted > 0 =>
            /\ Cardinality(SnapshotsOf(s)) <= 1
            /\ buildLog[s].ltp <= 1

(************************** claim on the poller ****************************)
\* the poller hands a persisted task to scheduleAITask in this step
Releases(p) ==
    /\ pollers'[p].pc = "await"
    /\ pollers'[p].wait # pollers[p].wait

\* C19: whenever the poller releases a persisted task into the scheduler,
\* no task is executing, the in-memory queue holds fewer than 10 tasks and
\* no priority-1 task, and at least 3 persisted tasks are pending.
C19_ReleaseGates ==
    [][\A p \in 1..MaxPollers :
          Releases(p) =>
              /\ executing = {}
              /\ ~isProcessing
              /\ Len(taskQueue) < QueueThreshold
              /\ ~hasHighPriorityPending
              /\ GetPendingAITasksCount >= MinBatch]_vars

(************************* claims on the STP ********************************)
\* C21: in the topic_cumulative of an STP built from a session with
\* topics, each topic's normalizedWeight is the weight normalizeTopicMap
\* gives to that topic, rounded to six decimals as the STP's numbers are.
C21_WeightsOfNormalizer ==
    (calc.op = "buildEnhancedTopicCumulative" /\ RLt(Zero, SumOf(calc.arg)))
    => LET weights == NormalizeTopicMap(calc.arg)
       IN  \A t \in DOMAIN calc.ret :
              /\ t \in DOMAIN weights
              /\ calc.ret[t].normalizedWeight = RoundToDecimal(weights[t])

\* C22: every STP returned by buildSTP has session_length_min >= 1, the
\* neutral STP of a session without events or of an internal error
\* included.
C22_SessionLengthAtLeastOne ==
    \A h \in 1..MaxHandlers :
        handlers[h].stp # NullSTP =>
            RLe(One, handlers[h].stp.session_length_min)

(************************* further claims on the LTP ***********************)
\* C23: the depth sample is 1 - diversity_entropy for every entropy in
\* [0,1], 0 included: an accepted cold start sets ewma_depth to it and a
\* warm update sets ewma_depth' = 0.9 * ewma_depth + 0.1 * sample.
C23_DepthSample ==
    \A h \in 1..MaxHandlers :
        Merging(h) =>
            LET stp == handlers[h].stp
                cur == handlers[h].cur
                sample == RSub(One, stp.diversity_entropy)
            IN  IF IsColdStart(cur)
                THEN ~LowConfidence(stp) => handlers[h].upd.ewma_depth = sample
                ELSE handlers[h].upd.ewma_depth =
                        RAdd(RMul(<<9, 10>>, cur.ewma_depth),
                             RMul(<<1, 10>>, sample))

(********************* further claims on the AI queue **********************)
\* C24: when processSingleAITask is done with a persisted task, whether
\* the task succeeded or failed and whatever its type, the task's row is
\* no longer in the pending store, so getPendingAITasks never returns it
\* again.
C24_FinishedRowRemoved ==
    [][\A p \in 1..MaxPollers :
          (pollers[p].pc = "await" /\ pollers'[p] # pollers[p])
              => pollers[p].row \notin aiQueue']_vars

\* C25: a persisted task is submitted at most once: no two tasks that are
\* queued or executing in the scheduler come from the same db.aiQueue row,
\* also when a poll tick fires while an earlier batch is still in work.
C25_SubmittedAtMostOnce ==
    \A a, b \in LiveTasks :
        (a.row # NoRow /\ a.row.pid = b.row.pid) => a.uid = b.uid

(********************* further claims on the scheduler *********************)
\* C26: when a task's handler fails and substitutes fallback content, the
\* TaskResult the submitter receives has success = FALSE.
C26_FallbackIsFailure ==
    \A u \in Uids :
        outcome[u] = "fallback" =>
            \A i \in 1..Len(resolved[u]) : resolved[u][i].success = FALSE

\* C28: isProcessing is TRUE exactly while a task is executing: it is
\* never FALSE while an execution is in flight and never TRUE when none is.
C28_BusyFlagExact == isProcessing <=> (executing # {})

(************************ the range of the LTP *****************************)
\* C27: after any sequence of cold starts and warm updates with STP
\* confidence and entropy in [0,1] and raw scores >= 0, the LTP has every
\* topic score >= 0, ewma_focus and ewma_depth in [0,1] and
\* sessions_seen >= 0.
InRange(ltp) ==
    /\ \A t \in DOMAIN ltp.topic_cumulative : RLe(Zero, ltp.topic_cumulative[t])
    /\ RLe(Zero, ltp.ewma_focus) /\ RLe(ltp.ewma_focus, One)
    /\ RLe(Zero, ltp.ewma_depth) /\ RLe(ltp.ewma_depth, One)
    /\ ltp.sessions_seen >= 0

C27_LTPInRange ==
    /\ InRange(profile.ltp)
    /\ \A h \in 1..MaxHandlers : Merging(h) => InRange(handlers[h].upd)

\* a warm update on top of a counted cold start was saved
C27_Witness ==
    /\ profile.ltp.sessions_seen = 2
    /\ profile.ltp.topic_cumulative # <<>>
    /\ profile.ltp.ewma_focus # Half
    /\ \A s \in Sessions : buildLog[s].ltp > 0

(********************* claims on the DatabaseService flags *****************)
\* C29: for each URL behaviour record at most one TOPIC_INFERENCE task is
\* ever enqueued, and once its result is stored the record keeps
\* topicInferenceSent = TRUE and topicInferenceProcessing = FALSE, whatever
\* a concurrent or later saveBehaviorData does.
C29_OneInferencePerRecord ==
    \A r \in 1..Len(urlRecords) :
        /\ urlRecords[r].enqueued <= 1
        /\ urlRecords[r].stored =>
              (urlRecords[r].sent /\ ~urlRecords[r].processing)

\* C30: every triggerSummaryGeneration call that sets
\* summaryGenerationInProgress is followed by the flag being false again.
C30_SummaryFlagReset ==
    summaryGenerationInProgress ~> ~summaryGenerationInProgress

====
